---- MODULE Spec2Model ----
(***************************************************************************)
(* Lifecycle of an embedded postgres server (src/embedded_postgres.go):    *)
(* the callers of EmbeddedPostgres.Start / Stop, the supervisor goroutine  *)
(* startPostgres, its readiness poller, the two hooks (channels) of the    *)
(* EmbeddedPostgres struct and the child processes.                        *)
(*                                                                         *)
(* Each goroutine is a program counter; one action is one statement that   *)
(* another goroutine can observe (a channel operation, a process           *)
(* operation, a return).  A panic in any goroutine ends the Go program:    *)
(* after it no goroutine takes a step, while child processes live on.      *)
(***************************************************************************)
EXTENDS Naturals, Sequences, FiniteSets

\* ------------------------------------------------------------------ bounds
\* Supervisor runs (Starts that reach `go ep.startPostgres`) in a behaviour.
MaxRuns == 2
\* Start/Stop calls in a behaviour.
MaxCalls == 4
\* The same two limits when two Coordinators share a port (PairSpec); they
\* bound the runs and the calls of both Coordinators together.
PairRuns == 1
PairCalls == 2

\* Builder calls on a Config in a behaviour of ConfigSpec.
MaxBuilds == 2

\* make(chan bool, 1): capacity of shutdownHook and of startupHook.
HookCap == 1

Coordinators == {"a", "b"}
RunIds == 1..(IF MaxRuns > PairRuns THEN MaxRuns ELSE PairRuns)

VARIABLES
    active,       \* the Coordinators that exist in this behaviour
    limit,        \* [runs, calls]: the bounds in force in this behaviour
    follows,      \* follows[c]: the Coordinators whose first call c awaits
    database,     \* config.database of each Coordinator
    conf,         \* a Config variable of the calling program
    built,        \* the Config returned by the last builder call
    epConfig,     \* ep.config of a Coordinator built from conf, <<>> before
    lastCall,     \* the last builder call: method, argument, receiver before
    builds,       \* builder calls made so far
    cache,        \* what is at the cache location: "absent", "file", "dir"
    callerPc,     \* position of each Coordinator's caller inside Start / Stop
    hist,         \* results of the caller's completed calls, oldest first
    steps,        \* the steps the current (or last) Start call has performed
    stopsInRun,   \* Stop calls that passed the nil check since the last launch
    startupHook,  \* ep.startupHook: a channel [buf, closed, nil]
    shutdownHook, \* ep.shutdownHook: a channel [buf, closed, nil]
    run,          \* number of supervisor goroutines launched so far
    svPc,         \* position of supervisor goroutine r of Coordinator c
    pollPc,       \* position of the poller goroutine of run r
    attempt,      \* what the poller's current (or last) attempt has done
    complete,     \* the unbuffered channel `complete`: "nil", "open", "closed"
    ctx,          \* ctx of run r: "nil", "active", "deadline", "cancelled"
    path,         \* select branch taken in run r: "none", "ready", "timeout"
    child,        \* the server process of run r
    sigCalls,     \* calls of Process.Signal(SIGQUIT) in run r
    waitCalls,    \* returned calls of postgresProcess.Wait() in run r
    crash         \* the panic that ended the program, if any

confVars == <<conf, built, epConfig, lastCall, builds>>
cfgVars  == <<active, limit, follows, database, confVars>>
callVars == <<callerPc, hist, steps, stopsInRun>>
hookVars == <<startupHook, shutdownHook>>
goVars   == <<run, svPc, pollPc, attempt, complete, ctx, path>>
procVars == <<child, sigCalls, waitCalls>>
vars == <<cfgVars, cache, callVars, hookVars, goVars, procVars, crash>>

\* ---------------------------------------------------------------- channels
\* A channel value; nil marks the zero value of a field never assigned.
NilChan == [buf |-> <<>>, closed |-> FALSE, nil |-> TRUE]
NewChan == [buf |-> <<>>, closed |-> FALSE, nil |-> FALSE]
\* A send proceeds when the channel is open and has room; on a closed channel
\* it panics; otherwise the sender stays blocked.
CanSend(ch) == ~ch.nil /\ ~ch.closed /\ Len(ch.buf) < HookCap
SendOn(ch, v) == [ch EXCEPT !.buf = Append(@, v)]
\* A receive (one iteration of `for range ch`) takes a buffered value if there
\* is one, also from a closed channel; `range` ends when the channel is closed
\* and drained; otherwise the receiver stays blocked.  A goroutine whose
\* position is a receive may not have reached the statement yet, so a value
\* sent meanwhile can go to any goroutine receiving from the channel.
CanRecv(ch) == Len(ch.buf) > 0
RecvFrom(ch) == [ch EXCEPT !.buf = Tail(@)]
Drained(ch) == ch.closed /\ Len(ch.buf) = 0
CloseOf(ch) == [ch EXCEPT !.closed = TRUE]

\* One iteration of the poller's loop: whether the liveness query succeeded,
\* whether CREATE DATABASE was issued, whether createDatabase returned nil.
NoAttempt == [health |-> FALSE, stmt |-> FALSE, created |-> FALSE]

NoCrash == [reason |-> "none", c |-> "none", role |-> "none"]
Alive == crash.reason = "none"
Panic(reason, c, role) == crash' = [reason |-> reason, c |-> c, role |-> role]

\* ------------------------------------------------------------- environment
\* Every Coordinator of the model is configured with the same port.
PortBound == \E c \in Coordinators, r \in RunIds : child[c][r] \in {"listening", "stoppingBound"}
Accepting == \E c \in Coordinators, r \in RunIds : child[c][r] = "listening"

\* defaultCacheLocator: the archive exists when stat finds a non-directory.
cacheLocator == cache = "file"

TypeOK ==
    /\ active \subseteq Coordinators
    /\ cache \in {"absent", "file", "dir"}
    /\ \A c \in Coordinators :
        /\ Len(startupHook[c].buf) <= HookCap
        /\ Len(shutdownHook[c].buf) <= HookCap
        /\ run[c] <= limit.runs
        /\ Len(hist[c]) <= limit.calls
        /\ follows[c] \subseteq active

\* ------------------------------------------------------------------ Config
\* DefaultConfig, lines 37-47; runtimePath is left at its zero value.
DefaultConfig ==
    [version |-> "12.1.0", port |-> 5432, database |-> "postgres",
     username |-> "postgres", password |-> "postgres", runtimePath |-> "",
     startTimeout |-> 15, stopTimeout |-> 5]
Fields == DOMAIN DefaultConfig

\* The builder methods, lines 49-87.  Each has a value receiver: the method
\* assigns one field of its own copy c and returns the copy, so a call yields
\* the receiver as the caller still holds it (recv) and the result (ret).
Version(c, v) == [recv |-> c, ret |-> [c EXCEPT !.version = v]]
Port(c, v) == [recv |-> c, ret |-> [c EXCEPT !.port = v]]
Database(c, v) == [recv |-> c, ret |-> [c EXCEPT !.database = v]]
Username(c, v) == [recv |-> c, ret |-> [c EXCEPT !.username = v]]
Password(c, v) == [recv |-> c, ret |-> [c EXCEPT !.password = v]]
RuntimePath(c, v) == [recv |-> c, ret |-> [c EXCEPT !.runtimePath = v]]
StartTimeout(c, v) == [recv |-> c, ret |-> [c EXCEPT !.startTimeout = v]]
\* Mutant: the method assigns the neighbouring field.
StopTimeout_SetsStartTimeout(c, v) == [recv |-> c, ret |-> [c EXCEPT !.startTimeout = v]]
StopTimeout(c, v) == [recv |-> c, ret |-> [c EXCEPT !.stopTimeout = v]]

Builders ==
    {"Version", "Port", "Database", "Username", "Password", "RuntimePath",
     "StartTimeout", "StopTimeout"}
\* The arguments the builder calls of the model are made with.
Arguments(m) ==
    CASE m = "Version" -> {"12.1.0", "11.6.0"}
      [] m = "Port" -> {5432, 5433}
      [] m = "Database" -> {"postgres", "testdb"}
      [] m = "Username" -> {"postgres", "tester"}
      [] m = "Password" -> {"postgres", "secret"}
      [] m = "RuntimePath" -> {"", "/tmp/pg"}
      [] m = "StartTimeout" -> {15, 1}
      [] m = "StopTimeout" -> {5, 1}
Call(m, c, v) ==
    CASE m = "Version" -> Version(c, v)
      [] m = "Port" -> Port(c, v)
      [] m = "Database" -> Database(c, v)
      [] m = "Username" -> Username(c, v)
      [] m = "Password" -> Password(c, v)
      [] m = "RuntimePath" -> RuntimePath(c, v)
      [] m = "StartTimeout" -> StartTimeout(c, v)
      [] m = "StopTimeout" -> StopTimeout(c, v)

\* -------------------------------------------------------------------- Init
InitWith(coords, lim, order) ==
    /\ active = coords
    /\ conf = DefaultConfig
    /\ built = DefaultConfig
    /\ epConfig = <<>>
    /\ lastCall = <<>>
    /\ builds = 0
    /\ limit = lim
    /\ follows = order
    /\ database \in [Coordinators -> {"postgres", "testdb"}]
    /\ \A c \in Coordinators : database[c] = database["a"]
    /\ cache \in {"absent", "file", "dir"}
    /\ callerPc = [c \in Coordinators |-> "idle"]
    /\ hist = [c \in Coordinators |-> <<>>]
    /\ steps = [c \in Coordinators |-> <<>>]
    /\ stopsInRun = [c \in Coordinators |-> 0]
    /\ startupHook = [c \in Coordinators |-> NilChan]
    /\ shutdownHook = [c \in Coordinators |-> NewChan]
    /\ run = [c \in Coordinators |-> 0]
    /\ svPc = [c \in Coordinators |-> [r \in RunIds |-> "none"]]
    /\ pollPc = [c \in Coordinators |-> [r \in RunIds |-> "none"]]
    /\ attempt = [c \in Coordinators |-> [r \in RunIds |-> NoAttempt]]
    /\ complete = [c \in Coordinators |-> [r \in RunIds |-> "nil"]]
    /\ ctx = [c \in Coordinators |-> [r \in RunIds |-> "nil"]]
    /\ path = [c \in Coordinators |-> [r \in RunIds |-> "none"]]
    /\ child = [c \in Coordinators |-> [r \in RunIds |-> "none"]]
    /\ sigCalls = [c \in Coordinators |-> [r \in RunIds |-> 0]]
    /\ waitCalls = [c \in Coordinators |-> [r \in RunIds |-> 0]]
    /\ crash = NoCrash

Init ==
    InitWith({"a"}, [runs |-> MaxRuns, calls |-> MaxCalls],
             [c \in Coordinators |-> {}])
\* Two Coordinators built from one Config (same port, same database); "b" is
\* used once the first call on "a" has returned.
PairInit ==
    InitWith({"a", "b"}, [runs |-> PairRuns, calls |-> PairCalls],
             [c \in Coordinators |-> IF c = "b" THEN {"a"} ELSE {}])

\* A program that only builds Configs and Coordinators: no Start, no Stop.
ConfigInit ==
    InitWith({}, [runs |-> 0, calls |-> 0], [c \in Coordinators |-> {}])

\* ---------------------------------------------------------- Config program
lifeVars == <<active, limit, follows, database, cache, callVars, hookVars, goVars, procVars, crash>>

\* `conf.M(v)`: one call of a builder method on the program's Config.
CallBuilder ==
    /\ builds < MaxBuilds
    /\ \E m \in Builders : \E v \in Arguments(m) :
          LET res == Call(m, conf, v) IN
          /\ conf' = res.recv
          /\ built' = res.ret
          /\ lastCall' = <<[method |-> m, arg |-> v, recv |-> conf, ep |-> epConfig]>>
    /\ builds' = builds + 1
    /\ UNCHANGED <<epConfig, lifeVars>>

\* `conf = conf.M(v)`: the program keeps the Config a builder returned.
Assign ==
    /\ lastCall # <<>>
    /\ conf # built
    /\ conf' = built
    /\ UNCHANGED <<built, epConfig, lastCall, builds, lifeVars>>

\* NewDatabaseWithConfig(conf), lines 182-196: the struct stores the Config
\* value it was passed.
NewDatabaseWithConfig ==
    /\ epConfig = <<>>
    /\ epConfig' = <<conf>>
    /\ UNCHANGED <<conf, built, lastCall, builds, lifeVars>>

ConfigNext ==
    \/ CallBuilder
    \/ Assign
    \/ NewDatabaseWithConfig

ConfigSpec == ConfigInit /\ [][ConfigNext]_vars

\* ----------------------------------------------------------------- callers
\* A call returns: its result joins the history and the caller is idle again.
Return(c, res) ==
    /\ hist' = [hist EXCEPT ![c] = Append(@, res)]
    /\ callerPc' = [callerPc EXCEPT ![c] = "idle"]
Goto(c, pc) ==
    /\ callerPc' = [callerPc EXCEPT ![c] = pc]
    /\ hist' = hist
Did(c, step) == steps' = [steps EXCEPT ![c] = Append(@, step)]

\* The result of the caller's last completed call.
LastCall(c) == IF hist[c] = <<>> THEN "none" ELSE hist[c][Len(hist[c])]

\* The caller's discipline (spec section 3): Start is not called again while a
\* previous successful Start is un-stopped, and calls do not overlap: one
\* goroutine drives all the Coordinators of the program.
Total(f) == f["a"] + f["b"]
CallsMade == Total([c \in Coordinators |-> Len(hist[c])])
RunsMade == Total(run)

MayCall(c) ==
    /\ Alive
    /\ c \in active
    /\ \A d \in Coordinators : callerPc[d] = "idle"
    /\ CallsMade < limit.calls
    /\ \A d \in follows[c] : hist[d] # <<>>
MayStart(c) ==
    /\ MayCall(c)
    /\ LastCall(c) # "StartOK"

\* Start, lines 199-205: net.Listen on the configured port, then conn.Close.
Start_Listen(c) ==
    /\ MayStart(c)
    /\ IF PortBound
       THEN /\ Return(c, "StartPortInUse")
            /\ steps' = [steps EXCEPT ![c] = <<"listen">>]
       ELSE \E closed \in BOOLEAN :
            /\ steps' = [steps EXCEPT ![c] = <<"listen">>]
            /\ IF closed THEN Goto(c, "cacheLocator") ELSE Return(c, "StartErr")
    /\ UNCHANGED <<cfgVars, cache, stopsInRun, hookVars, goVars, procVars, crash>>

\* Mutant: the fetch is skipped on a cache miss.
Start_CacheLocator_NoFetch(c) ==
    /\ Alive
    /\ callerPc[c] = "cacheLocator"
    /\ Did(c, IF cacheLocator THEN "hit" ELSE "miss")
    /\ Goto(c, "removeAll")
    /\ UNCHANGED <<cfgVars, cache, stopsInRun, hookVars, goVars, procVars, crash>>

\* Start, lines 207-208: the cache lookup.
Start_CacheLocator(c) ==
    /\ Alive
    /\ callerPc[c] = "cacheLocator"
    /\ IF cacheLocator
       THEN Did(c, "hit") /\ Goto(c, "removeAll")
       ELSE Did(c, "miss") /\ Goto(c, "fetch")
    /\ UNCHANGED <<cfgVars, cache, stopsInRun, hookVars, goVars, procVars, crash>>

\* Start, lines 209-211, and defaultRemoteFetchStrategy, lines 362-416.
\* netfail: http.Get fails, resp is nil and the deferred resp.Body.Close()
\* dereferences it: the program panics.  badbody: the body cannot be read or
\* is no zip.  nomatch: no entry ends in .txz, nothing is written, nil is
\* returned.  write: createArchiveFile, which fails when a directory is in
\* the way (or on any I/O error).
remoteFetchStrategy(c, out) ==
    /\ Did(c, "fetch")
    /\ CASE out = "netfail" ->
              /\ Panic("nilResponse", c, "caller")
              /\ UNCHANGED <<cache, callerPc, hist>>
         [] out = "badbody" ->
              /\ Return(c, "StartErr")
              /\ UNCHANGED <<cache, crash>>
         [] out = "nomatch" ->
              /\ Goto(c, "removeAll")
              /\ UNCHANGED <<cache, crash>>
         [] out = "write" /\ cache # "dir" ->
              /\ cache' = "file"
              /\ Goto(c, "removeAll")
              /\ UNCHANGED crash
         [] OTHER ->
              /\ Return(c, "StartErr")
              /\ UNCHANGED <<cache, crash>>

Start_Fetch(c) ==
    /\ Alive
    /\ callerPc[c] = "fetch"
    /\ \E out \in {"netfail", "badbody", "nomatch", "write", "writefail"} :
          remoteFetchStrategy(c, out)
    /\ UNCHANGED <<cfgVars, stopsInRun, hookVars, goVars, procVars>>

\* One fallible synchronous step of Start: on failure Start returns the error.
PreStep(c, at, name, next, possible) ==
    /\ Alive
    /\ callerPc[c] = at
    /\ Did(c, name)
    /\ \E ok \in BOOLEAN :
          IF ok /\ possible THEN Goto(c, next) ELSE Return(c, "StartErr")
    /\ UNCHANGED <<cfgVars, cache, stopsInRun, hookVars, goVars, procVars, crash>>

\* Start, lines 213-216: os.RemoveAll of the extraction directory.
Start_RemoveAll(c) == PreStep(c, "removeAll", "removeAll", "unarchive", TRUE)
\* Start, lines 217-219: Unarchive needs the archive at the cache location.
Start_Unarchive(c) == PreStep(c, "unarchive", "unarchive", "writeFile", cache = "file")
\* Start, lines 221-224: the password file.
Start_WriteFile(c) == PreStep(c, "writeFile", "writeFile", "initdb", TRUE)
\* Start, lines 225-235: initdb runs to completion.
Start_InitDb(c) == PreStep(c, "initdb", "initdb", "launch", TRUE)

\* Start, lines 236-237: a fresh startupHook, then `go ep.startPostgres`.
Start_Launch(c) ==
    /\ Alive
    /\ callerPc[c] = "launch"
    /\ RunsMade < limit.runs
    /\ Did(c, "launch")
    /\ Goto(c, "startRange")
    /\ startupHook' = [startupHook EXCEPT ![c] = NewChan]
    /\ run' = [run EXCEPT ![c] = @ + 1]
    /\ svPc' = [svPc EXCEPT ![c][run[c] + 1] = "spawn"]
    /\ stopsInRun' = [stopsInRun EXCEPT ![c] = 0]
    /\ UNCHANGED <<cfgVars, cache, shutdownHook, pollPc, attempt, complete, ctx, path, procVars, crash>>

\* Start, lines 238-240: `for range ep.startupHook {}` then return nil.
Start_Range(c) ==
    /\ Alive
    /\ callerPc[c] = "startRange"
    /\ IF CanRecv(startupHook[c])
       THEN /\ startupHook' = [startupHook EXCEPT ![c] = RecvFrom(@)]
            /\ UNCHANGED <<callerPc, hist>>
       ELSE /\ Drained(startupHook[c])
            /\ Return(c, "StartOK")
            /\ UNCHANGED startupHook
    /\ UNCHANGED <<cfgVars, cache, steps, stopsInRun, shutdownHook, goVars, procVars, crash>>

\* Mutant: the guard tests the hook that the constructor allocates.
StopNotStarted_OtherHook(c) == shutdownHook[c].nil

\* Stop, line 317: the guard on ep.startupHook.
StopNotStarted(c) == startupHook[c].nil

\* Stop, lines 316-319.
Stop_Check(c) ==
    /\ MayCall(c)
    /\ IF StopNotStarted(c)
       THEN Return(c, "StopNotStarted") /\ UNCHANGED stopsInRun
       ELSE /\ Goto(c, "stopSend")
            /\ stopsInRun' = [stopsInRun EXCEPT ![c] = @ + 1]
    /\ UNCHANGED <<cfgVars, cache, steps, hookVars, goVars, procVars, crash>>

\* Stop, line 320: ep.shutdownHook <- true.
Stop_Send(c) ==
    /\ Alive
    /\ callerPc[c] = "stopSend"
    /\ IF shutdownHook[c].closed
       THEN /\ Panic("sendOnClosed", c, "caller")
            /\ UNCHANGED <<callerPc, shutdownHook>>
       ELSE /\ CanSend(shutdownHook[c])
            /\ shutdownHook' = [shutdownHook EXCEPT ![c] = SendOn(@, TRUE)]
            /\ callerPc' = [callerPc EXCEPT ![c] = "stopRange"]
            /\ UNCHANGED crash
    /\ UNCHANGED <<cfgVars, cache, hist, steps, stopsInRun, startupHook, goVars, procVars>>

\* Stop, lines 321-323: `for range ep.shutdownHook {}` then return nil.
Stop_Range(c) ==
    /\ Alive
    /\ callerPc[c] = "stopRange"
    /\ IF CanRecv(shutdownHook[c])
       THEN /\ shutdownHook' = [shutdownHook EXCEPT ![c] = RecvFrom(@)]
            /\ UNCHANGED <<callerPc, hist>>
       ELSE /\ Drained(shutdownHook[c])
            /\ Return(c, "StopOK")
            /\ UNCHANGED shutdownHook
    /\ UNCHANGED <<cfgVars, cache, steps, stopsInRun, startupHook, goVars, procVars, crash>>

\* -------------------------------------------------------------- supervisor
\* Mutant: the startup hook is closed as soon as the child is spawned.
Sup_Spawn_CloseEarly(c, r) ==
    /\ Alive
    /\ svPc[c][r] = "spawn"
    /\ child' = [child EXCEPT ![c][r] = "running"]
    /\ complete' = [complete EXCEPT ![c][r] = "open"]
    /\ ctx' = [ctx EXCEPT ![c][r] = "active"]
    /\ pollPc' = [pollPc EXCEPT ![c][r] = "check"]
    /\ svPc' = [svPc EXCEPT ![c][r] = "select"]
    /\ startupHook' = [startupHook EXCEPT ![c] = CloseOf(@)]
    /\ UNCHANGED <<cfgVars, cache, callVars, shutdownHook, run, attempt, path, sigCalls, waitCalls, crash>>

\* startPostgres, lines 244-255: the server process is started; on success
\* the `complete` channel, the deadline context and the poller goroutine are
\* created; on failure the startup hook is closed before the panic.
Sup_Spawn(c, r) ==
    /\ Alive
    /\ svPc[c][r] = "spawn"
    /\ \E ok \in BOOLEAN :
          IF ok
          THEN /\ child' = [child EXCEPT ![c][r] = "running"]
               /\ complete' = [complete EXCEPT ![c][r] = "open"]
               /\ ctx' = [ctx EXCEPT ![c][r] = "active"]
               /\ pollPc' = [pollPc EXCEPT ![c][r] = "check"]
               /\ svPc' = [svPc EXCEPT ![c][r] = "select"]
               /\ UNCHANGED startupHook
          ELSE /\ startupHook' = [startupHook EXCEPT ![c] = CloseOf(@)]
               /\ svPc' = [svPc EXCEPT ![c][r] = "panic"]
               /\ UNCHANGED <<child, complete, ctx, pollPc, attempt>>
    /\ UNCHANGED <<cfgVars, cache, callVars, shutdownHook, run, attempt, path, sigCalls, waitCalls, crash>>

\* startPostgres, line 250: panic(err) after a failed spawn.
Sup_SpawnPanic(c, r) ==
    /\ Alive
    /\ svPc[c][r] = "panic"
    /\ Panic("spawnFailed", c, "supervisor")
    /\ UNCHANGED <<cfgVars, cache, callVars, hookVars, goVars, procVars>>

\* Mutant: `complete` is also received from inside the shutdown loop.
Sup_SelectComplete_InLoop(c, r) ==
    /\ Alive
    /\ svPc[c][r] \in {"select", "range"}
    /\ pollPc[c][r] = "send"
    /\ complete[c][r] = "open"
    /\ svPc' = [svPc EXCEPT ![c][r] = "readyClose"]
    /\ pollPc' = [pollPc EXCEPT ![c][r] = "done"]
    /\ path' = [path EXCEPT ![c][r] = "ready"]
    /\ UNCHANGED <<cfgVars, cache, callVars, hookVars, run, attempt, complete, ctx, procVars, crash>>

\* startPostgres, lines 270-271: select receives from `complete`; the
\* channel is unbuffered, so the poller's send (line 265) and this receive
\* are one step, after which the poller breaks out of its loop.
Sup_SelectComplete(c, r) ==
    /\ Alive
    /\ svPc[c][r] = "select"
    /\ pollPc[c][r] = "send"
    /\ complete[c][r] = "open"
    /\ svPc' = [svPc EXCEPT ![c][r] = "readyClose"]
    /\ pollPc' = [pollPc EXCEPT ![c][r] = "done"]
    /\ path' = [path EXCEPT ![c][r] = "ready"]
    /\ UNCHANGED <<cfgVars, cache, callVars, hookVars, run, attempt, complete, ctx, procVars, crash>>

\* Mutant: on the deadline the supervisor only closes the startup hook.
Sup_SelectDone_NoRequest(c, r) ==
    /\ Alive
    /\ svPc[c][r] = "select"
    /\ ctx[c][r] # "active"
    /\ svPc' = [svPc EXCEPT ![c][r] = "timeoutClose"]
    /\ path' = [path EXCEPT ![c][r] = "timeout"]
    /\ UNCHANGED <<cfgVars, cache, callVars, hookVars, run, pollPc, attempt, complete, ctx, procVars, crash>>

\* startPostgres, line 274: select receives from ctx.Done().
Sup_SelectDone(c, r) ==
    /\ Alive
    /\ svPc[c][r] = "select"
    /\ ctx[c][r] # "active"
    /\ svPc' = [svPc EXCEPT ![c][r] = "timeoutSend"]
    /\ path' = [path EXCEPT ![c][r] = "timeout"]
    /\ UNCHANGED <<cfgVars, cache, callVars, hookVars, run, pollPc, attempt, complete, ctx, procVars, crash>>

\* close(ep.startupHook), as the supervisor does it at lines 273 and 276.
CloseStartupHook(c, r, next) ==
    IF startupHook[c].closed
    THEN /\ Panic("closeOfClosed", c, "supervisor")
         /\ UNCHANGED <<startupHook, svPc>>
    ELSE /\ startupHook' = [startupHook EXCEPT ![c] = CloseOf(@)]
         /\ svPc' = [svPc EXCEPT ![c][r] = next]
         /\ UNCHANGED crash

\* startPostgres, lines 272-273: close(complete); close(ep.startupHook).
Sup_ReadyClose(c, r) ==
    /\ Alive
    /\ svPc[c][r] = "readyClose"
    /\ complete' = [complete EXCEPT ![c][r] = "closed"]
    /\ CloseStartupHook(c, r, "range")
    /\ UNCHANGED <<cfgVars, cache, callVars, shutdownHook, run, pollPc, attempt, ctx, path, procVars>>

\* startPostgres, line 275: ep.shutdownHook <- true.
Sup_TimeoutSend(c, r) ==
    /\ Alive
    /\ svPc[c][r] = "timeoutSend"
    /\ IF shutdownHook[c].closed
       THEN /\ Panic("sendOnClosed", c, "supervisor")
            /\ UNCHANGED <<shutdownHook, svPc>>
       ELSE /\ CanSend(shutdownHook[c])
            /\ shutdownHook' = [shutdownHook EXCEPT ![c] = SendOn(@, TRUE)]
            /\ svPc' = [svPc EXCEPT ![c][r] = "timeoutClose"]
            /\ UNCHANGED crash
    /\ UNCHANGED <<cfgVars, cache, callVars, startupHook, run, pollPc, attempt, complete, ctx, path, procVars>>

\* startPostgres, line 276: close(ep.startupHook).
Sup_TimeoutClose(c, r) ==
    /\ Alive
    /\ svPc[c][r] = "timeoutClose"
    /\ CloseStartupHook(c, r, "range")
    /\ UNCHANGED <<cfgVars, cache, callVars, shutdownHook, run, pollPc, attempt, complete, ctx, path, procVars>>

\* startPostgres, lines 279-280 and 289-290: one iteration of
\* `for shutdown := range ep.shutdownHook`; when the channel is closed and
\* drained the function returns and the deferred cancelFunc runs.
Sup_Range(c, r) ==
    /\ Alive
    /\ svPc[c][r] = "range"
    /\ IF CanRecv(shutdownHook[c])
       THEN /\ shutdownHook' = [shutdownHook EXCEPT ![c] = RecvFrom(@)]
            /\ svPc' = [svPc EXCEPT ![c][r] =
                           IF Head(shutdownHook[c].buf) THEN "signal" ELSE "range"]
            /\ UNCHANGED ctx
       ELSE /\ Drained(shutdownHook[c])
            /\ svPc' = [svPc EXCEPT ![c][r] = "done"]
            /\ ctx' = [ctx EXCEPT ![c][r] = IF @ = "active" THEN "cancelled" ELSE @]
            /\ UNCHANGED shutdownHook
    /\ UNCHANGED <<cfgVars, cache, callVars, startupHook, run, pollPc, attempt, complete, path, procVars, crash>>

\* Mutant: the shutdown hook is closed right after the signal, before Wait.
Sup_Signal_CloseBeforeWait(c, r) ==
    /\ Alive
    /\ svPc[c][r] = "signal"
    /\ sigCalls' = [sigCalls EXCEPT ![c][r] = @ + 1]
    /\ child' = [child EXCEPT ![c][r] =
                    CASE @ = "running" -> "stopping"
                      [] @ = "listening" -> "stoppingBound"
                      [] OTHER -> @]
    /\ shutdownHook' = [shutdownHook EXCEPT ![c] = CloseOf(@)]
    /\ svPc' = [svPc EXCEPT ![c][r] = "wait"]
    /\ UNCHANGED <<cfgVars, cache, callVars, startupHook, run, pollPc, attempt, complete, ctx, path, waitCalls, crash>>

\* startPostgres, lines 281-283: SIGQUIT to the child.  A process that was
\* already waited for is not signalled (the error is logged).
Sup_Signal(c, r) ==
    /\ Alive
    /\ svPc[c][r] = "signal"
    /\ sigCalls' = [sigCalls EXCEPT ![c][r] = @ + 1]
    /\ child' = [child EXCEPT ![c][r] =
                    CASE @ = "running" -> "stopping"
                      [] @ = "listening" -> "stoppingBound"
                      [] OTHER -> @]
    /\ svPc' = [svPc EXCEPT ![c][r] = "wait"]
    /\ UNCHANGED <<cfgVars, cache, callVars, hookVars, run, pollPc, attempt, complete, ctx, path, waitCalls, crash>>

\* startPostgres, lines 284-286: Wait returns once the child has exited (and
\* reaps it), or at once with an error when Wait was already called.
Sup_Wait(c, r) ==
    /\ Alive
    /\ svPc[c][r] = "wait"
    /\ child[c][r] \in {"exited", "reaped"}
    /\ child' = [child EXCEPT ![c][r] = "reaped"]
    /\ waitCalls' = [waitCalls EXCEPT ![c][r] = @ + 1]
    /\ svPc' = [svPc EXCEPT ![c][r] = "closeShutdown"]
    /\ UNCHANGED <<cfgVars, cache, callVars, hookVars, run, pollPc, attempt, complete, ctx, path, sigCalls, crash>>

\* startPostgres, line 287: close(ep.shutdownHook).
Sup_CloseShutdown(c, r) ==
    /\ Alive
    /\ svPc[c][r] = "closeShutdown"
    /\ IF shutdownHook[c].closed
       THEN /\ Panic("closeOfClosed", c, "supervisor")
            /\ UNCHANGED <<shutdownHook, svPc>>
       ELSE /\ shutdownHook' = [shutdownHook EXCEPT ![c] = CloseOf(@)]
            /\ svPc' = [svPc EXCEPT ![c][r] = "range"]
            /\ UNCHANGED crash
    /\ UNCHANGED <<cfgVars, cache, callVars, startupHook, run, pollPc, attempt, complete, ctx, path, procVars>>

\* ------------------------------------------------------------------ poller
\* startPostgres, line 258: the loop condition ctx.Err() == nil, tested before
\* the first attempt and again after every `continue`.
Poll_Check(c, r) ==
    /\ Alive
    /\ pollPc[c][r] = "check"
    /\ IF ctx[c][r] = "active"
       THEN /\ pollPc' = [pollPc EXCEPT ![c][r] = "health"]
            /\ attempt' = [attempt EXCEPT ![c][r] = NoAttempt]
       ELSE /\ pollPc' = [pollPc EXCEPT ![c][r] = "done"]
            /\ UNCHANGED attempt
    /\ UNCHANGED <<cfgVars, cache, callVars, hookVars, run, svPc, complete, ctx, path, procVars, crash>>

\* Mutant: the probe reports success without a server answering.
healthCheckDatabase_NoProbe(ok) == ok

\* healthCheckDatabase, lines 326-350: SELECT 1 over a connection to the
\* port; it can succeed only while a server accepts connections there.
healthCheckDatabase(ok) == ok /\ Accepting

\* Mutant: the `continue` after a failed liveness query is missing.
Poll_Health_NoContinue(c, r) ==
    /\ Alive
    /\ pollPc[c][r] = "health"
    /\ \E ok \in BOOLEAN :
          attempt' = [attempt EXCEPT ![c][r].health = healthCheckDatabase(ok)]
    /\ pollPc' = [pollPc EXCEPT ![c][r] = "createdb"]
    /\ UNCHANGED <<cfgVars, cache, callVars, hookVars, run, svPc, complete, ctx, path, procVars, crash>>

\* startPostgres, lines 259-261.
Poll_Health(c, r) ==
    /\ Alive
    /\ pollPc[c][r] = "health"
    /\ \E ok \in BOOLEAN :
          /\ attempt' = [attempt EXCEPT ![c][r].health = healthCheckDatabase(ok)]
          /\ pollPc' = [pollPc EXCEPT ![c][r] =
                           IF healthCheckDatabase(ok) THEN "createdb" ELSE "check"]
    /\ UNCHANGED <<cfgVars, cache, callVars, hookVars, run, svPc, complete, ctx, path, procVars, crash>>

\* createDatabase, lines 292-314: nothing to do for "postgres"; otherwise
\* CREATE DATABASE over a connection to the port.
createDatabase(c, ok) == database[c] = "postgres" \/ (ok /\ Accepting)
\* createDatabase, lines 293-295 and 309: db.Exec is reached only for a
\* database other than "postgres".
createStatement(c) == database[c] # "postgres"

\* startPostgres, lines 262-264; on success the poller goes on to send on
\* `complete` (line 265), which Sup_SelectComplete receives.
Poll_CreateDb(c, r) ==
    /\ Alive
    /\ pollPc[c][r] = "createdb"
    /\ \E ok \in BOOLEAN :
          /\ attempt' = [attempt EXCEPT ![c][r].stmt = createStatement(c),
                                        ![c][r].created = createDatabase(c, ok)]
          /\ pollPc' = [pollPc EXCEPT ![c][r] =
                           IF createDatabase(c, ok) THEN "send" ELSE "check"]
    /\ UNCHANGED <<cfgVars, cache, callVars, hookVars, run, svPc, complete, ctx, path, procVars, crash>>

\* ------------------------------------------------- timer and child process
\* context.WithTimeout, line 254: config.startTimeout elapses.  Nothing reads
\* the context once the select has returned and the poller has left its loop.
Deadline(c, r) ==
    /\ ctx[c][r] = "active"
    /\ svPc[c][r] = "select" \/ pollPc[c][r] # "done"
    /\ ctx' = [ctx EXCEPT ![c][r] = "deadline"]
    /\ UNCHANGED <<cfgVars, cache, callVars, hookVars, run, svPc, pollPc, attempt, complete, path, procVars, crash>>

\* The server binds the port (postgres -p port -h localhost); when another
\* server holds it, the bind fails and the process exits.
Child_Listen(c, r) ==
    /\ child[c][r] = "running"
    /\ child' = [child EXCEPT ![c][r] = IF PortBound THEN "exited" ELSE "listening"]
    /\ UNCHANGED <<cfgVars, cache, callVars, hookVars, goVars, sigCalls, waitCalls, crash>>

\* The server exits after SIGQUIT and releases the port.
Child_Exit(c, r) ==
    /\ child[c][r] \in {"stopping", "stoppingBound"}
    /\ child' = [child EXCEPT ![c][r] = "exited"]
    /\ UNCHANGED <<cfgVars, cache, callVars, hookVars, goVars, sigCalls, waitCalls, crash>>

\* -------------------------------------------------------------------- Next
Caller(c) ==
    \/ Start_Listen(c)
    \/ Start_CacheLocator(c)
    \/ Start_Fetch(c)
    \/ Start_RemoveAll(c)
    \/ Start_Unarchive(c)
    \/ Start_WriteFile(c)
    \/ Start_InitDb(c)
    \/ Start_Launch(c)
    \/ Start_Range(c)
    \/ Stop_Check(c)
    \/ Stop_Send(c)
    \/ Stop_Range(c)

startPostgres(c, r) ==
    \/ Sup_Spawn(c, r)
    \/ Sup_SpawnPanic(c, r)
    \/ Sup_SelectComplete(c, r)
    \/ Sup_SelectDone(c, r)
    \/ Sup_ReadyClose(c, r)
    \/ Sup_TimeoutSend(c, r)
    \/ Sup_TimeoutClose(c, r)
    \/ Sup_Range(c, r)
    \/ Sup_Signal(c, r)
    \/ Sup_Wait(c, r)
    \/ Sup_CloseShutdown(c, r)

Poller(c, r) ==
    \/ Poll_Check(c, r)
    \/ Poll_Health(c, r)
    \/ Poll_CreateDb(c, r)

Environment(c, r) ==
    \/ Deadline(c, r)
    \/ Child_Listen(c, r)
    \/ Child_Exit(c, r)

Next ==
    \/ \E c \in Coordinators : Caller(c)
    \/ \E c \in Coordinators, r \in RunIds : startPostgres(c, r)
    \/ \E c \in Coordinators, r \in RunIds : Poller(c, r)
    \/ \E c \in Coordinators, r \in RunIds : Environment(c, r)

Spec == Init /\ [][Next]_vars
PairSpec == PairInit /\ [][Next]_vars

\* ================================================================== claims
In(s, x) == \E i \in 1..Len(s) : s[i] = x
Count(s, x) == Cardinality({i \in 1..Len(s) : s[i] = x})
Pos(s, x) == CHOOSE i \in 1..Len(s) : s[i] = x
LastRun(c) == run[c]

\* C1: Stop never returns before the supervisor's wait on the child has
\* returned: whenever a Stop call returns nil, the child of the Coordinator's
\* run has been sent SIGQUIT and postgresProcess.Wait() has returned.
C1_StopAfterWait ==
    [][\A c \in Coordinators :
          (callerPc[c] = "stopRange" /\ callerPc'[c] = "idle") =>
              /\ LastRun(c) >= 1
              /\ sigCalls[c][LastRun(c)] >= 1
              /\ waitCalls[c][LastRun(c)] >= 1
              /\ child[c][LastRun(c)] = "reaped"]_vars

\* C1 witness: Stop has returned nil after a successful Start whose child
\* was signalled and reaped.
C1_Witness ==
    /\ hist["a"] = <<"StartOK", "StopOK">>
    /\ sigCalls["a"][1] = 1
    /\ child["a"][1] = "reaped"

\* C3: a Stop call on a Coordinator on which no Start has succeeded returns
\* the not-started error and changes nothing: no channel operation on either
\* hook, no process operation, no goroutine.
StopCalled(c) ==
    /\ callerPc[c] = "idle"
    /\ \/ callerPc'[c] = "stopSend"
       \/ hist'[c] = Append(hist[c], "StopNotStarted")
       \/ hist'[c] = Append(hist[c], "StopOK")
C3_StopBeforeStart ==
    [][\A c \in Coordinators :
          (StopCalled(c) /\ ~In(hist[c], "StartOK")) =>
              /\ hist'[c] = Append(hist[c], "StopNotStarted")
              /\ callerPc'[c] = "idle"
              /\ UNCHANGED <<hookVars, goVars, procVars, crash, stopsInRun>>]_vars

\* C3 witness: Stop has answered not-started after a Start that failed in a
\* pre-start step.
C3_Witness ==
    /\ Len(hist["a"]) >= 2
    /\ hist["a"][1] = "StartErr"
    /\ hist["a"][2] = "StopNotStarted"
    /\ shutdownHook["a"] = NewChan

\* C5: with the child spawned, the startup hook is closed, and Start returns,
\* only after the poller has signalled readiness or the deadline has elapsed;
\* the value Start returns is nil on either path.
ReadyOrDeadline(c, r) == path[c][r] = "ready" \/ ctx[c][r] = "deadline"
C5_StartAfterReadyOrTimeout ==
    [][\A c \in Coordinators :
          /\ (/\ ~startupHook[c].closed
              /\ startupHook'[c].closed
              /\ child'[c][LastRun(c)] # "none") => ReadyOrDeadline(c, LastRun(c))
          /\ (/\ callerPc[c] = "startRange"
              /\ callerPc'[c] = "idle"
              /\ child[c][LastRun(c)] # "none") =>
                  /\ hist'[c] = Append(hist[c], "StartOK")
                  /\ ReadyOrDeadline(c, LastRun(c))]_vars

\* C5 witness: Start has returned nil on the timeout path, readiness never
\* having been signalled.
C5_Witness ==
    /\ hist["a"] = <<"StartOK">>
    /\ path["a"][1] = "timeout"
    /\ ctx["a"][1] = "deadline"
    /\ child["a"][1] # "none"

\* C9: in a Start call that passed the port check, a cache hit means the
\* fetch is not invoked at all; a cache miss means it is invoked exactly once
\* (as soon as Start is past it), and before the extraction.
C9_FetchOnMissOnly ==
    \A c \in Coordinators :
        LET s == steps[c] IN
        /\ In(s, "hit") => ~In(s, "fetch")
        /\ In(s, "fetch") => In(s, "miss") /\ Count(s, "fetch") = 1
        /\ (In(s, "miss") /\ callerPc[c] # "fetch") => Count(s, "fetch") = 1
        /\ (In(s, "miss") /\ In(s, "unarchive")) => Pos(s, "fetch") < Pos(s, "unarchive")
        /\ In(s, "unarchive") => In(s, "hit") \/ In(s, "miss")

\* C9 witness: a Start on a cache miss has fetched, extracted and returned.
C9_Witness ==
    /\ LastCall("a") = "StartOK"
    /\ In(steps["a"], "miss")
    /\ In(steps["a"], "unarchive")

\* C2 (as claimed): after a Start that succeeded through readiness, no
\* reachable state has the single Stop call and the supervisor both blocked
\* receiving on the open, empty shutdown hook with no goroutine left to send
\* on it or close it.
StopAndSupervisorStuck(c) ==
    /\ callerPc[c] = "stopRange"
    /\ stopsInRun[c] = 1
    /\ LastRun(c) >= 1
    /\ path[c][LastRun(c)] = "ready"
    /\ svPc[c][LastRun(c)] = "range"
    /\ ~shutdownHook[c].closed
    /\ ~CanRecv(shutdownHook[c])
    /\ \A r \in RunIds : r # LastRun(c) => svPc[c][r] \in {"none", "done"}
C2_StopReturns == \A c \in Coordinators : ~StopAndSupervisorStuck(c)

\* C4 (as claimed): a Stop call that follows a successful Start and a
\* successful Stop returns the not-started error; it does not go on to the
\* shutdown hook, where it would panic or block.
C4_SecondStopNotStarted ==
    [][\A c \in Coordinators :
          (/\ StopCalled(c)
           /\ Len(hist[c]) >= 2
           /\ hist[c][Len(hist[c]) - 1] = "StartOK"
           /\ hist[c][Len(hist[c])] = "StopOK") =>
              hist'[c] = Append(hist[c], "StopNotStarted")]_vars

HitOrder == <<"listen", "hit", "removeAll", "unarchive", "writeFile", "initdb", "launch">>
MissOrder == <<"listen", "miss", "fetch", "removeAll", "unarchive", "writeFile", "initdb", "launch">>
PreStartPcs == {"cacheLocator", "fetch", "removeAll", "unarchive", "writeFile", "initdb"}
StartCalled(c) ==
    /\ callerPc[c] = "idle"
    /\ \/ callerPc'[c] = "cacheLocator"
       \/ hist'[c] = Append(hist[c], "StartPortInUse")
       \/ hist'[c] = Append(hist[c], "StartErr")
PreStartStepFails(c) ==
    \/ StartCalled(c) /\ callerPc'[c] = "idle"
    \/ callerPc[c] \in PreStartPcs /\ callerPc'[c] = "idle"
    \/ /\ callerPc[c] \in PreStartPcs
       /\ crash' # crash
       /\ crash'.role = "caller"
       /\ crash'.c = c
C7_PreStartBeforeSpawn ==
    [][\A c \in Coordinators :
          /\ run'[c] # run[c] => steps'[c] \in {HitOrder, MissOrder}
          /\ (\E r \in RunIds : child[c][r] = "none" /\ child'[c][r] # "none") =>
                steps[c] \in {HitOrder, MissOrder}
          /\ PreStartStepFails(c) =>
                /\ hist'[c] \in {Append(hist[c], "StartErr"),
                                 Append(hist[c], "StartPortInUse")}
                /\ crash' = crash
                /\ UNCHANGED <<hookVars, goVars, procVars>>]_vars

\* C8 (as claimed): with the first Coordinator's Start returned nil (its
\* child spawned) and its Stop not called, a Start on the other Coordinator
\* returns the port-in-use error from its first step.
StartedNotStopped(c) ==
    /\ LastCall(c) = "StartOK"
    /\ callerPc[c] = "idle"
    /\ stopsInRun[c] = 0
    /\ child[c][LastRun(c)] # "none"
SecondStartRefused(d) ==
    /\ hist'[d] = Append(hist[d], "StartPortInUse")
    /\ steps'[d] = <<"listen">>
    /\ callerPc'[d] = "idle"
C8_SecondStartPortInUse ==
    [][\A c, d \in Coordinators :
          (c # d /\ StartedNotStopped(c) /\ StartCalled(d)) =>
              SecondStartRefused(d)]_vars

\* C8 (amended): the same, provided the first Start succeeded through
\* readiness (not through the deadline) and the second Coordinator has not
\* launched a server of its own before: the server that answered the probe
\* is then the first Coordinator's child, which holds the port.
C8_SecondStartPortInUseWhenReady ==
    [][\A c, d \in Coordinators :
          (/\ c # d
           /\ StartedNotStopped(c)
           /\ path[c][LastRun(c)] = "ready"
           /\ run[d] = 0
           /\ StartCalled(d)) =>
              SecondStartRefused(d)]_vars

\* C8 witness: the second Start was refused while the first Coordinator,
\* started through readiness, is un-stopped.
C8_Witness ==
    /\ hist["a"] = <<"StartOK">>
    /\ path["a"][1] = "ready"
    /\ stopsInRun["a"] = 0
    /\ hist["b"] = <<"StartPortInUse">>
    /\ steps["b"] = <<"listen">>

\* C10 (as claimed): once a Stop that follows a successful Start has
\* returned, the child has exited, both hooks are closed and empty, and
\* neither the supervisor nor the poller of the run is blocked for ever.
PollerStuck(c, r) == pollPc[c][r] = "send" /\ svPc[c][r] # "select"
SupervisorStuck(c, r) ==
    /\ svPc[c][r] \in {"range", "timeoutSend"}
    /\ ~shutdownHook[c].closed
    /\ callerPc[c] = "idle"
C10_CleanAfterStop ==
    \A c \in Coordinators :
        (/\ callerPc[c] = "idle"
         /\ LastCall(c) = "StopOK"
         /\ Len(hist[c]) >= 2
         /\ hist[c][Len(hist[c]) - 1] = "StartOK") =>
            /\ child[c][LastRun(c)] \in {"exited", "reaped"}
            /\ Drained(startupHook[c])
            /\ Drained(shutdownHook[c])
            /\ ~SupervisorStuck(c, LastRun(c))
            /\ ~PollerStuck(c, LastRun(c))

\* C11 (as claimed): every Start that launches the supervisor does so with a
\* freshly allocated startup hook and a freshly allocated shutdown hook, both
\* open and empty, so that a Start, Stop, Start, Stop sequence never operates
\* on a channel closed in the first cycle.
C11_FreshHooksPerStart ==
    [][\A c \in Coordinators :
          run'[c] # run[c] =>
              /\ startupHook'[c] = NewChan
              /\ shutdownHook'[c] = NewChan]_vars

\* C12 (as claimed): while the program runs, at most one child spawned by a
\* Coordinator is running, and every running child has a live supervisor
\* goroutine that terminates it on a stop request.
ChildRunning(c, r) == child[c][r] \in {"running", "listening"}
SupervisorLive(c, r) == svPc[c][r] \notin {"none", "panic", "done"}
C12_OneSupervisedChild ==
    Alive =>
        \A c \in Coordinators :
            /\ Cardinality({r \in RunIds : ChildRunning(c, r)}) <= 1
            /\ \A r \in RunIds : ChildRunning(c, r) => SupervisorLive(c, r)

\* C13 (as claimed): a fetch that does not deliver the archive makes Start
\* return an error value: no panic, nothing removed, extracted or written in
\* the working directory, no child, no supervisor.
FetchStep(c) == callerPc[c] = "fetch" /\ steps'[c] = Append(steps[c], "fetch")
C13_FetchFailureReturnsError ==
    [][\A c \in Coordinators :
          (FetchStep(c) /\ callerPc'[c] # "removeAll") =>
              /\ hist'[c] = Append(hist[c], "StartErr")
              /\ callerPc'[c] = "idle"
              /\ crash' = crash
              /\ ~In(steps'[c], "removeAll")
              /\ ~In(steps'[c], "unarchive")
              /\ ~In(steps'[c], "writeFile")
              /\ UNCHANGED <<hookVars, goVars, procVars>>]_vars

\* C14: a builder call returns a Config that holds the argument in the field
\* the method names and equals the receiver in the seven other fields; the
\* receiver is unchanged, and so is the Config of a Coordinator built before
\* the call.
FieldOf(m) ==
    CASE m = "Version" -> "version"
      [] m = "Port" -> "port"
      [] m = "Database" -> "database"
      [] m = "Username" -> "username"
      [] m = "Password" -> "password"
      [] m = "RuntimePath" -> "runtimePath"
      [] m = "StartTimeout" -> "startTimeout"
      [] m = "StopTimeout" -> "stopTimeout"
C14_BuildersFrame ==
    [][builds' # builds =>
          LET call == Head(lastCall') IN
          /\ \A f \in Fields :
                built'[f] = IF f = FieldOf(call.method) THEN call.arg ELSE conf[f]
          /\ call.recv = conf
          /\ conf' = conf
          /\ epConfig' = epConfig]_vars

\* C14 witness: a builder was called on the Config a Coordinator had been
\* built from and returned a different Config; the Coordinator's Config is
\* still the receiver.
C14_Witness ==
    /\ lastCall # <<>>
    /\ Head(lastCall).ep = <<Head(lastCall).recv>>
    /\ built # Head(lastCall).recv
    /\ epConfig = Head(lastCall).ep

\* C15 (as claimed): each hook has one writer and one reader: a value enters
\* the shutdown hook only by the Stop caller's send and leaves it only by the
\* supervisor's receive; the startup hook is closed only by the supervisor
\* and received from only by the Start caller.
SentOn(hook, c) == Len(hook'[c].buf) > Len(hook[c].buf)
ReceivedFrom(hook, c) == Len(hook'[c].buf) < Len(hook[c].buf)
ClosedNow(hook, c) == ~hook[c].closed /\ hook'[c].closed
SupervisorStep(c) == \E r \in RunIds : svPc'[c][r] # svPc[c][r]
C15_OneWriterOneReader ==
    [][\A c \in Coordinators :
          /\ SentOn(shutdownHook, c) =>
                callerPc[c] = "stopSend" /\ callerPc'[c] = "stopRange"
          /\ ReceivedFrom(shutdownHook, c) => SupervisorStep(c)
          /\ ClosedNow(startupHook, c) => SupervisorStep(c)
          /\ ReceivedFrom(startupHook, c) => callerPc[c] = "startRange"]_vars

\* C16: the poller's send on `complete` is received only when, in the same
\* attempt, the liveness query and then createDatabase succeeded; CREATE
\* DATABASE is issued only for a database other than "postgres" and only
\* after the attempt's liveness query succeeded; a failed step signals
\* nothing and leads back to the loop condition, which starts a new attempt
\* while the deadline has not elapsed; after the signal the poller has ended.
PollerFails(c, r) == pollPc[c][r] \in {"health", "createdb"} /\ pollPc'[c][r] = "check"
C16_ReadinessAfterBothSteps ==
    [][\A c \in Coordinators, r \in RunIds :
          /\ (path[c][r] # "ready" /\ path'[c][r] = "ready") =>
                /\ pollPc[c][r] = "send"
                /\ attempt[c][r].health
                /\ attempt[c][r].created
                /\ pollPc'[c][r] = "done"
          /\ pollPc'[c][r] = "send" => attempt'[c][r].health /\ attempt'[c][r].created
          /\ (attempt'[c][r].stmt /\ attempt'[c][r] # attempt[c][r]) =>
                /\ database[c] # "postgres"
                /\ attempt[c][r].health
                /\ pollPc[c][r] = "createdb"
          /\ PollerFails(c, r) =>
                /\ ~attempt'[c][r].created \/ ~attempt'[c][r].health
                /\ UNCHANGED <<path, complete, svPc, hookVars>>
          /\ (pollPc[c][r] = "check" /\ pollPc'[c][r] # "check") =>
                pollPc'[c][r] = IF ctx[c][r] = "active" THEN "health" ELSE "done"
          /\ path[c][r] = "ready" =>
                /\ pollPc'[c][r] = "done"
                /\ attempt'[c][r] = attempt[c][r]]_vars

\* C16 witness: readiness was signalled for a database other than "postgres"
\* after an attempt in which the liveness query succeeded and CREATE DATABASE
\* was issued and succeeded.
C16_Witness ==
    /\ database["a"] = "testdb"
    /\ path["a"][1] = "ready"
    /\ pollPc["a"][1] = "done"
    /\ attempt["a"][1] = [health |-> TRUE, stmt |-> TRUE, created |-> TRUE]

\* C17 (as claimed): once the deadline has elapsed with readiness not yet
\* signalled, the supervisor does not take the readiness branch.
C17_NoReadinessAfterDeadline ==
    [][\A c \in Coordinators, r \in RunIds :
          (ctx[c][r] = "deadline" /\ path[c][r] = "none") =>
              path'[c][r] # "ready"]_vars

\* C17 (amended): once the supervisor has taken the timeout branch it never
\* takes the readiness branch: a send of the poller on `complete`, also one
\* from an attempt that succeeds after the deadline, is never received.  With
\* the deadline elapsed the select takes the timeout branch unless the
\* poller's send is pending, in which case it may take either branch.
C17_NoReadinessAfterTimeoutPath ==
    [][\A c \in Coordinators, r \in RunIds :
          /\ path[c][r] = "timeout" =>
                /\ path'[c][r] = "timeout"
                /\ svPc'[c][r] # "readyClose"
                /\ complete'[c][r] = complete[c][r]
                /\ pollPc[c][r] = "send" => pollPc'[c][r] = "send"
          /\ (ctx[c][r] = "deadline" /\ path[c][r] = "none" /\ path'[c][r] # "none") =>
                \/ path'[c][r] = "timeout"
                \/ pollPc[c][r] = "send" /\ path'[c][r] = "ready"]_vars

\* C17 witness: the supervisor took the timeout branch and closed the startup
\* hook; the poller's attempt succeeded afterwards and its send is pending.
C17_Witness ==
    /\ path["a"][1] = "timeout"
    /\ ctx["a"][1] = "deadline"
    /\ startupHook["a"].closed
    /\ pollPc["a"][1] = "send"
    /\ attempt["a"][1].created

\* C18 (as claimed): within a run the supervisor signals the child, then
\* waits for it, then closes the shutdown hook, each exactly once: never a
\* second Signal or Wait, never a close before the wait has returned, and the
\* close itself succeeds.
C18_SignalWaitCloseOnce ==
    \A c \in Coordinators, r \in RunIds :
        /\ sigCalls[c][r] <= 1
        /\ waitCalls[c][r] <= 1
        /\ waitCalls[c][r] <= sigCalls[c][r]
        /\ svPc[c][r] = "closeShutdown" => waitCalls[c][r] = 1
        /\ ~(crash.reason = "closeOfClosed" /\ crash.c = c /\ svPc[c][r] = "closeShutdown")

\* C19 (as claimed): in a run of one successful Start followed by at most
\* one Stop, no goroutine sends on a closed hook or closes a hook twice.
SingleRun(c) ==
    /\ run[c] = 1
    /\ stopsInRun[c] <= 1
    /\ \/ hist[c] = <<>> /\ callerPc[c] = "startRange"
       \/ hist[c] = <<"StartOK">>
       \/ hist[c] = <<"StartOK", "StopOK">> /\ callerPc[c] = "idle"
C19_NoChannelMisuse ==
    \A c \in Coordinators :
        (SingleRun(c) /\ crash.c = c) =>
            crash.reason \notin {"sendOnClosed", "closeOfClosed"}

\* C20 (as claimed): the poller is never left at its send on `complete` with
\* the supervisor on the timeout path, where nothing receives from `complete`
\* any more.
C20_PollerNeverBlockedOnSend ==
    \A c \in Coordinators, r \in RunIds :
        ~(pollPc[c][r] = "send" /\ path[c][r] = "timeout")

====
